---- MODULE Spec2Model ----
(***************************************************************************)
(* Absence accounting of the two ILR calculators:                          *)
(*   streamlit_app.py            counts every day from departure to return *)
(*                               (policy "INCLUSIVE", compute_absence);    *)
(*   streamlit_ilr_policy_app.py counts only the whole days abroad         *)
(*                               (policy "UKVI_WHOLE_DAY").                *)
(* A date is its proleptic Gregorian ordinal (datetime.date.toordinal()):  *)
(* date + timedelta(days=k) is integer addition and the order of dates is  *)
(* the order of ordinals.  Calendar-year addition (relativedelta) goes     *)
(* through year/month/day as dateutil does.  Indices i, j are Python's     *)
(* 0-based indices; the k-th element of a Python list is seq[k + 1].       *)
(***************************************************************************)
EXTENDS Integers, Sequences, FiniteSets, TLC

VARIABLES policy, res_start, cap, trips,
          pc, qualifying, earliest, absent, days, scan, blk, result

vars == <<policy, res_start, cap, trips,
          pc, qualifying, earliest, absent, days, scan, blk, result>>

\* ------------------------------------------------------------------ bounds
MaxTrips == 2

\* ---------------------------------------------------------------- calendar
None == 0

is_leap(y) == (y % 4 = 0) /\ ((y % 100 # 0) \/ (y % 400 = 0))

days_in_month(y, m) ==
    IF m = 2 THEN (IF is_leap(y) THEN 29 ELSE 28)
    ELSE IF m \in {4, 6, 9, 11} THEN 30 ELSE 31

RECURSIVE days_before_month(_, _)
days_before_month(y, m) ==
    IF m = 1 THEN 0 ELSE days_before_month(y, m - 1) + days_in_month(y, m - 1)

days_before_year(y) ==
    (y - 1) * 365 + ((y - 1) \div 4) - ((y - 1) \div 100) + ((y - 1) \div 400)

\* datetime.date(y, m, d) as an ordinal
Date(y, m, d) == days_before_year(y) + days_before_month(y, m) + d

\* the (year, month, day) of an ordinal, as CPython's _ord2ymd computes it
ord2ymd(ord) ==
    LET n0   == ord - 1
        n400 == n0 \div 146097
        r400 == n0 % 146097
        n100 == r400 \div 36524
        r100 == r400 % 36524
        n4   == r100 \div 1461
        r4   == r100 % 1461
        n1   == r4 \div 365
        r1   == r4 % 365
        year == n400 * 400 + 1 + n100 * 100 + n4 * 4 + n1
    IN  IF n1 = 4 \/ n100 = 4
        THEN <<year - 1, 12, 31>>
        ELSE LET m0   == (r1 + 50) \div 32
                 pre0 == days_before_month(year, m0)
                 month == IF pre0 > r1 THEN m0 - 1 ELSE m0
                 pre  == days_before_month(year, month)
             IN  <<year, month, r1 - pre + 1>>

\* d + relativedelta(years=n): same month and day n years on, the day
\* clipped to the length of the month in the target year
relativedelta_years(d, n) ==
    LET ymd  == ord2ymd(d)
        year == ymd[1] + n
        day  == IF ymd[3] > days_in_month(year, ymd[2])
                THEN days_in_month(year, ymd[2]) ELSE ymd[3]
    IN  Date(year, ymd[2], day)

Epoch == Date(1970, 1, 1)

to_day_serial(d) == d - Epoch

from_day_serial(n) == Epoch + n

\* mutant: range(n) where the code has range(n + 1)
daterange_short(a, b) == {a + k : k \in 0 .. (b - a - 1)}

daterange_inclusive(a, b) == {a + k : k \in 0 .. (b - a)}

Min2(x, y) == IF x < y THEN x ELSE y

Max2(x, y) == IF x > y THEN x ELSE y

\* ---------------------------------------------------------------- key dates
\* mutant: five years taken as 5 * 365 + 1 days
compute_dates_days(start_date) ==
    LET q == start_date + 1826
    IN  <<q, q - 28>>

compute_dates(start_date) ==
    LET q == relativedelta_years(start_date, 5)
    IN  <<q, q - 28>>

\* ------------------------------------------------------- absent-day sets
\* streamlit_app.py, compute_absence: the loop over trips filling `absent`
\* with day serials (k is the number of trips already consumed)
RECURSIVE inclusive_absent(_, _, _, _, _)
inclusive_absent(tr, k, start, end, acc) ==
    IF k >= Len(tr) THEN acc
    ELSE LET out  == tr[k + 1][1]
             back == tr[k + 1][2]
         IN  IF out = None \/ back = None
             THEN inclusive_absent(tr, k + 1, start, end, acc)
             ELSE LET a == Min2(out, back)
                      b == Max2(out, back)
                  IN  IF b < start \/ a > end
                      THEN inclusive_absent(tr, k + 1, start, end, acc)
                      ELSE inclusive_absent(tr, k + 1, start, end,
                             acc \cup {to_day_serial(d) :
                                 d \in daterange_inclusive(Max2(a, start), Min2(b, end))})

\* mutant: the pair is not put in order
normalise_trip_noswap(out, back) ==
    IF out = None \/ back = None THEN <<None, None>>
    ELSE <<out, back>>

normalise_trip(out, back) ==
    IF out = None \/ back = None THEN <<None, None>>
    ELSE IF back < out THEN <<back, out>>
    ELSE <<out, back>>

\* mutant: the signs of the two one-day shifts exchanged
RECURSIVE count_absences_ukvi_signs(_, _, _, _, _)
count_absences_ukvi_signs(tr, k, fivey_start, fivey_end, acc) ==
    IF k >= Len(tr) THEN acc
    ELSE LET nt   == normalise_trip(tr[k + 1][1], tr[k + 1][2])
             out  == nt[1]
             back == nt[2]
         IN  IF out = None \/ back = None
             THEN count_absences_ukvi_signs(tr, k + 1, fivey_start, fivey_end, acc)
             ELSE LET start == out - 1
                      end   == back + 1
                  IN  IF end < fivey_start \/ start > fivey_end
                      THEN count_absences_ukvi_signs(tr, k + 1, fivey_start, fivey_end, acc)
                      ELSE LET s2 == Max2(start, fivey_start)
                               e2 == Min2(end, fivey_end)
                           IN  count_absences_ukvi_signs(tr, k + 1, fivey_start, fivey_end,
                                 IF s2 <= e2
                                 THEN acc \cup daterange_inclusive(s2, e2)
                                 ELSE acc)

\* streamlit_ilr_policy_app.py, count_absences_ukvi: a set of dates
RECURSIVE count_absences_ukvi_loop(_, _, _, _, _)
count_absences_ukvi_loop(tr, k, fivey_start, fivey_end, acc) ==
    IF k >= Len(tr) THEN acc
    ELSE LET nt   == normalise_trip(tr[k + 1][1], tr[k + 1][2])
             out  == nt[1]
             back == nt[2]
         IN  IF out = None \/ back = None
             THEN count_absences_ukvi_loop(tr, k + 1, fivey_start, fivey_end, acc)
             ELSE LET start == out + 1
                      end   == back - 1
                  IN  IF end < fivey_start \/ start > fivey_end
                      THEN count_absences_ukvi_loop(tr, k + 1, fivey_start, fivey_end, acc)
                      ELSE LET s2 == Max2(start, fivey_start)
                               e2 == Min2(end, fivey_end)
                           IN  count_absences_ukvi_loop(tr, k + 1, fivey_start, fivey_end,
                                 IF s2 <= e2
                                 THEN acc \cup daterange_inclusive(s2, e2)
                                 ELSE acc)

count_absences_ukvi(tr, fivey_start, fivey_end) ==
    count_absences_ukvi_loop(tr, 0, fivey_start, fivey_end, {})

\* streamlit_ilr_policy_app.py, "Build trips tuples" and "Remove anything
\* fully before entry": the rows handed to count_absences_ukvi
RECURSIVE parsed_trips(_, _, _)
parsed_trips(tr, k, start) ==
    IF k >= Len(tr) THEN <<>>
    ELSE LET nt == normalise_trip(tr[k + 1][1], tr[k + 1][2])
         IN  IF nt[1] # None /\ nt[2] # None /\ nt[2] >= start
             THEN <<nt>> \o parsed_trips(tr, k + 1, start)
             ELSE parsed_trips(tr, k + 1, start)

\* sorted(): ascending list of a set of integers
RECURSIVE sorted(_)
sorted(S) ==
    IF S = {} THEN <<>>
    ELSE LET m == CHOOSE x \in S : \A y \in S : x <= y
         IN  <<m>> \o sorted(S \ {m})

\* ------------------------------------------------ rolling 365-day scan
\* State of the two-pointer loop: pc is the position in the loop, i the
\* index of the current right edge, j the left pointer, best the running
\* maximum, best_end the right-edge day recorded with it, failed an
\* IndexError raised by the read days[j].
scan_init ==
    [pc |-> "for", i |-> 0, j |-> 0, best |-> 0, best_end |-> None, failed |-> FALSE]

\* rolling_12m_max's early return for an empty list
scan_empty ==
    [pc |-> "end", i |-> 0, j |-> 0, best |-> 0, best_end |-> None, failed |-> FALSE]

\* for i in range(len(days)): enter the body or leave the loop
for_step(ds, s) ==
    IF s.i < Len(ds) THEN [s EXCEPT !.pc = "while"] ELSE [s EXCEPT !.pc = "end"]

\* mutant: <= where the code has <
while_step_le(ds, s) ==
    IF s.j >= Len(ds)
    THEN [s EXCEPT !.pc = "end", !.failed = TRUE]
    ELSE IF ds[s.j + 1] <= ds[s.i + 1] - 364
         THEN [s EXCEPT !.j = s.j + 1]
         ELSE [s EXCEPT !.pc = "count"]

\* mutant: 365 where the code has 364
while_step_365(ds, s) ==
    IF s.j >= Len(ds)
    THEN [s EXCEPT !.pc = "end", !.failed = TRUE]
    ELSE IF ds[s.j + 1] < ds[s.i + 1] - 365
         THEN [s EXCEPT !.j = s.j + 1]
         ELSE [s EXCEPT !.pc = "count"]

\* one evaluation of  while days[j] < days[i] - 364: j += 1
while_step(ds, s) ==
    IF s.j >= Len(ds)
    THEN [s EXCEPT !.pc = "end", !.failed = TRUE]
    ELSE IF ds[s.j + 1] < ds[s.i + 1] - 364
         THEN [s EXCEPT !.j = s.j + 1]
         ELSE [s EXCEPT !.pc = "count"]

\* mutant: count = i - j
window_count_step_less(ds, s) ==
    LET count == s.i - s.j
    IN  [s EXCEPT !.pc = "for", !.i = s.i + 1,
                  !.best = IF count > s.best THEN count ELSE s.best]

\* streamlit_app.py: count = i - j + 1; keep the maximum
window_count_step(ds, s) ==
    LET count == s.i - s.j + 1
    IN  [s EXCEPT !.pc = "for", !.i = s.i + 1,
                  !.best = IF count > s.best THEN count ELSE s.best]

\* mutant: >= where the code has >, so the last tie wins
rolling_count_step_ge(ds, s) ==
    LET count == s.i - s.j + 1
    IN  IF count >= s.best
        THEN [s EXCEPT !.pc = "for", !.i = s.i + 1, !.best = count,
                       !.best_end = ds[s.i + 1]]
        ELSE [s EXCEPT !.pc = "for", !.i = s.i + 1]

\* streamlit_ilr_policy_app.py: as above, and remember the right edge
rolling_count_step(ds, s) ==
    LET count == s.i - s.j + 1
    IN  IF count > s.best
        THEN [s EXCEPT !.pc = "for", !.i = s.i + 1, !.best = count,
                       !.best_end = ds[s.i + 1]]
        ELSE [s EXCEPT !.pc = "for", !.i = s.i + 1]

scan_step(pol, ds, s) ==
    CASE s.pc = "for"   -> for_step(ds, s)
      [] s.pc = "while" -> while_step(ds, s)
      [] s.pc = "count" -> IF pol = "INCLUSIVE" THEN window_count_step(ds, s)
                           ELSE rolling_count_step(ds, s)

\* the loop run to its end
RECURSIVE run_scan(_, _, _)
run_scan(pol, ds, s) ==
    IF s.pc = "end" THEN s ELSE run_scan(pol, ds, scan_step(pol, ds, s))

\* rolling_12m_max(absent_days) -> (best, best_start, best_end)
rolling_12m_max(absent_days) ==
    LET s == IF absent_days = {} THEN scan_empty
             ELSE run_scan("UKVI_WHOLE_DAY", sorted(absent_days), scan_init)
    IN  [max_count    |-> s.best,
         window_start |-> IF s.best_end # None THEN s.best_end - 364 ELSE None,
         window_end   |-> s.best_end,
         failed       |-> s.failed]

\* ----------------------------------------------------------- fixed blocks
blk_init(start) == [rows |-> <<>>, year_start |-> start]

\* streamlit_app.py: one turn of  while cur_start <= end  (absent day serials)
fixed_step(absent_sorted, end, c, b) ==
    LET cur_start == b.year_start
        cur_end   == Min2(relativedelta_years(cur_start, 1) - 1, end)
        n         == Cardinality({x \in absent_sorted :
                         cur_start <= from_day_serial(x) /\ from_day_serial(x) <= cur_end})
    IN  [rows |-> Append(b.rows,
                    [Year |-> Len(b.rows) + 1, Start |-> cur_start, End |-> cur_end,
                     Days |-> n, Status |-> IF n > c THEN "BREACH" ELSE "OK"]),
         year_start |-> relativedelta_years(cur_start, 1)]

\* mutant: the block ends on the next anniversary itself
build_fixed_blocks_step_overlap(absent_set, fivey_end, c, b) ==
    LET year_end == Min2(relativedelta_years(b.year_start, 1), fivey_end)
        count    == Cardinality({d \in absent_set : b.year_start <= d /\ d <= year_end})
    IN  [rows |-> Append(b.rows,
                    [Year |-> Len(b.rows) + 1, Start |-> b.year_start, End |-> year_end,
                     Days |-> count, Status |-> IF count > c THEN "BREACH" ELSE "OK"]),
         year_start |-> relativedelta_years(b.year_start, 1)]

\* streamlit_ilr_policy_app.py: one turn of  while year_start <= fivey_end
build_fixed_blocks_step(absent_set, fivey_end, c, b) ==
    LET year_end == Min2(relativedelta_years(b.year_start, 1) - 1, fivey_end)
        count    == Cardinality({d \in absent_set : b.year_start <= d /\ d <= year_end})
    IN  [rows |-> Append(b.rows,
                    [Year |-> Len(b.rows) + 1, Start |-> b.year_start, End |-> year_end,
                     Days |-> count, Status |-> IF count > c THEN "BREACH" ELSE "OK"]),
         year_start |-> relativedelta_years(b.year_start, 1)]

block_step(pol, abs, end, c, b) ==
    IF pol = "INCLUSIVE" THEN fixed_step(abs, end, c, b)
    ELSE build_fixed_blocks_step(abs, end, c, b)

RECURSIVE run_blocks(_, _, _, _, _)
run_blocks(pol, abs, end, c, b) ==
    IF b.year_start <= end THEN run_blocks(pol, abs, end, c, block_step(pol, abs, end, c, b))
    ELSE b

build_fixed_blocks(absent_set, start, fivey_end, c) ==
    run_blocks("UKVI_WHOLE_DAY", absent_set, fivey_end, c, blk_init(start)).rows

\* ---------------------------------------------------------------- results
\* the dictionary compute_absence returns
inclusive_result(abs, s, rows, c) ==
    IF s.failed THEN [failed |-> TRUE]
    ELSE [failed |-> FALSE,
          total_absent_days |-> Cardinality(abs),
          max_in_any_window |-> s.best,
          fixed_blocks |-> rows,
          breach |-> s.best > c]

\* what the UKVI page shows and exports
ukvi_result(abs, s, rows, c) ==
    IF s.failed THEN [failed |-> TRUE]
    ELSE [failed |-> FALSE,
          total_absent_days |-> Cardinality(abs),
          max_count |-> s.best,
          window_start |-> IF s.best_end # None THEN s.best_end - 364 ELSE None,
          window_end |-> s.best_end,
          fixed_blocks |-> rows,
          breach |-> ~(s.best <= c)]

compute_absence(tr, start, end, c) ==
    LET abs == inclusive_absent(tr, 0, start, end, {})
        s   == run_scan("INCLUSIVE", sorted(abs), scan_init)
    IN  inclusive_result(abs, s,
            IF s.failed THEN <<>>
            ELSE run_blocks("INCLUSIVE", abs, end, c, blk_init(start)).rows, c)

\* the "Compute" section of streamlit_ilr_policy_app.py
ukvi_page(tr, start, c) ==
    LET q   == compute_dates(start)[1]
        abs == count_absences_ukvi(parsed_trips(tr, 0, start), start, q)
        r   == rolling_12m_max(abs)
        s   == [scan_empty EXCEPT !.best = r.max_count, !.best_end = r.window_end,
                                  !.failed = r.failed]
    IN  ukvi_result(abs, s,
            IF r.failed THEN <<>> ELSE build_fixed_blocks(abs, start, q, c), c)

\* the page of streamlit_app.py below "if res_start is None"
inclusive_page(tr, start, c) ==
    compute_absence(tr, start, compute_dates(start)[1], c)

\* ----------------------------------------------------------------- inputs
Starts == {Date(2016, 2, 29), Date(2020, 1, 1), Date(2020, 2, 29)}

Caps == {1, 180}

TripChoices ==
    { <<Date(2020, 3, 1), Date(2020, 3, 10)>>,    \* the trip of the spec's examples
      <<Date(2020, 3, 5), Date(2020, 3, 15)>>,    \* overlaps it
      <<Date(2020, 3, 4), Date(2020, 3, 3)>>,     \* inside it, adjacent days, back to front
      <<Date(2021, 3, 2), Date(2021, 2, 26)>>,    \* a year later, back to front
      <<None, Date(2020, 5, 1)>>,                 \* incomplete
      <<Date(2019, 12, 31), Date(2020, 1, 2)>>,   \* around 1 January 2020
      <<Date(2020, 12, 30), Date(2021, 1, 1)>>,   \* around 31 December 2020
      <<Date(2021, 3, 5), Date(2021, 3, 5)>> }    \* same-day trip

TripLists == UNION {[1 .. n -> TripChoices] : n \in 0 .. MaxTrips}

\* ------------------------------------------------------------ state machine
Init ==
    /\ policy \in {"INCLUSIVE", "UKVI_WHOLE_DAY"}
    /\ res_start \in Starts
    /\ cap \in Caps
    /\ trips \in TripLists
    /\ pc = "dates"
    /\ qualifying = None
    /\ earliest = None
    /\ absent = {}
    /\ days = <<>>
    /\ scan = scan_init
    /\ blk = blk_init(None)
    /\ result = [failed |-> FALSE]

\* qualifying, earliest = compute_dates(res_start)
ComputeDates ==
    /\ pc = "dates"
    /\ qualifying' = compute_dates(res_start)[1]
    /\ earliest' = compute_dates(res_start)[2]
    /\ pc' = "absent"
    /\ UNCHANGED <<policy, res_start, cap, trips, absent, days, scan, blk, result>>

\* the absent-day set and its sorted list, up to the start of the scan
Materialize ==
    /\ pc = "absent"
    /\ absent' = IF policy = "INCLUSIVE"
                 THEN inclusive_absent(trips, 0, res_start, qualifying, {})
                 ELSE count_absences_ukvi(parsed_trips(trips, 0, res_start),
                                          res_start, qualifying)
    /\ days' = sorted(absent')
    /\ scan' = IF policy = "UKVI_WHOLE_DAY" /\ absent' = {} THEN scan_empty ELSE scan_init
    /\ pc' = "scan"
    /\ UNCHANGED <<policy, res_start, cap, trips, qualifying, earliest, blk, result>>

ScanFor ==
    /\ pc = "scan" /\ scan.pc = "for"
    /\ scan' = for_step(days, scan)
    /\ UNCHANGED <<policy, res_start, cap, trips, pc, qualifying, earliest, absent, days,
                   blk, result>>

ScanWhile ==
    /\ pc = "scan" /\ scan.pc = "while"
    /\ scan' = while_step(days, scan)
    /\ UNCHANGED <<policy, res_start, cap, trips, pc, qualifying, earliest, absent, days,
                   blk, result>>

ScanCount ==
    /\ pc = "scan" /\ scan.pc = "count"
    /\ scan' = IF policy = "INCLUSIVE" THEN window_count_step(days, scan)
               ELSE rolling_count_step(days, scan)
    /\ UNCHANGED <<policy, res_start, cap, trips, pc, qualifying, earliest, absent, days,
                   blk, result>>

\* the scan is over: go on to the fixed blocks, or propagate its exception
ScanEnd ==
    /\ pc = "scan" /\ scan.pc = "end"
    /\ IF scan.failed
       THEN /\ pc' = "done"
            /\ result' = [failed |-> TRUE]
            /\ blk' = blk
       ELSE /\ pc' = "blocks"
            /\ blk' = blk_init(res_start)
            /\ result' = result
    /\ UNCHANGED <<policy, res_start, cap, trips, qualifying, earliest, absent, days, scan>>

BlockEmit ==
    /\ pc = "blocks" /\ blk.year_start <= qualifying
    /\ blk' = block_step(policy, absent, qualifying, cap, blk)
    /\ UNCHANGED <<policy, res_start, cap, trips, pc, qualifying, earliest, absent, days,
                   scan, result>>

Finish ==
    /\ pc = "blocks" /\ ~(blk.year_start <= qualifying)
    /\ result' = IF policy = "INCLUSIVE" THEN inclusive_result(absent, scan, blk.rows, cap)
                 ELSE ukvi_result(absent, scan, blk.rows, cap)
    /\ pc' = "done"
    /\ UNCHANGED <<policy, res_start, cap, trips, qualifying, earliest, absent, days,
                   scan, blk>>

Next ==
    \/ ComputeDates
    \/ Materialize
    \/ ScanFor
    \/ ScanWhile
    \/ ScanCount
    \/ ScanEnd
    \/ BlockEmit
    \/ Finish

Spec == Init /\ [][Next]_vars

\* ------------------------------------------------- every residence start
\* The same pages run from every residence start of a four-year cycle
\* (each day of the year, 29 February 2016 and 2020 included), with the
\* default cap and no trip or the example trip.
DefaultCap == 180

StartRange == Date(2016, 1, 1) .. Date(2020, 2, 29)

InitStarts ==
    /\ policy \in {"INCLUSIVE", "UKVI_WHOLE_DAY"}
    /\ res_start \in StartRange
    /\ cap = DefaultCap
    /\ trips \in {<<>>, << <<Date(2020, 3, 1), Date(2020, 3, 10)>> >>}
    /\ pc = "dates"
    /\ qualifying = None
    /\ earliest = None
    /\ absent = {}
    /\ days = <<>>
    /\ scan = scan_init
    /\ blk = blk_init(None)
    /\ result = [failed |-> FALSE]

SpecStarts == InitStarts /\ [][Next]_vars

\* the stepwise run and the functions composed agree
PagesAgree ==
    pc = "done" =>
        result = IF policy = "INCLUSIVE" THEN inclusive_page(trips, res_start, cap)
                 ELSE ukvi_page(trips, res_start, cap)

\* ------------------------------------------------------------ properties
\* the absent days as dates, whichever page computed them
AbsentDates ==
    IF policy = "INCLUSIVE" THEN {from_day_serial(n) : n \in absent} ELSE absent

\* how many absent days lie in the 365-day span that starts on x
InSpan(x) == Cardinality({d \in AbsentDates : x <= d /\ d <= x + 364})

MaxCount ==
    IF policy = "INCLUSIVE" THEN result.max_in_any_window ELSE result.max_count

Rows == result.fixed_blocks

Finished == pc = "done" /\ ~result.failed

Complete(t) == t[1] # None /\ t[2] # None

\* a span that starts before the first absent day minus 364 or after the
\* last absent day holds no absent day; SpanStarts are all the others
SpanStarts ==
    IF AbsentDates = {} THEN {}
    ELSE LET lo == CHOOSE x \in AbsentDates : \A y \in AbsentDates : x <= y
             hi == CHOOSE x \in AbsentDates : \A y \in AbsentDates : x >= y
         IN  (lo - 364) .. hi

\* C1: no span of 365 consecutive days holds more absent days than the
\* maximum the scan returns, and the window the UKVI page reports,
\* [window_end - 364, window_end], holds exactly that many.
C1_RollingMaximality ==
    Finished =>
        /\ MaxCount >= 0
        /\ \A x \in SpanStarts : InSpan(x) <= MaxCount
        /\ (policy = "UKVI_WHOLE_DAY" /\ result.window_end # None)
               => InSpan(result.window_end - 364) = result.max_count

C1_Witness ==
    /\ Finished
    /\ policy = "UKVI_WHOLE_DAY"
    /\ scan.j > 0
    /\ result.max_count > 1
    /\ result.window_end # None

\* C2: the fixed blocks are consecutive and disjoint, the first starts on
\* residence_start, the last ends on qualifying_date, and every day of the
\* window lies in exactly one block.
C2_WindowCoverage ==
    Finished =>
        /\ Len(Rows) >= 1
        /\ Rows[1].Start = res_start
        /\ Rows[Len(Rows)].End = qualifying
        /\ \A k \in 1 .. Len(Rows) : Rows[k].Start <= Rows[k].End
        /\ \A k \in 1 .. Len(Rows) - 1 : Rows[k + 1].Start = Rows[k].End + 1
        /\ \A k1, k2 \in 1 .. Len(Rows) : k1 < k2 => Rows[k1].End < Rows[k2].Start
        /\ \A d \in res_start .. qualifying :
               \E k \in 1 .. Len(Rows) : Rows[k].Start <= d /\ d <= Rows[k].End

C2_Witness ==
    /\ Finished
    /\ ord2ymd(res_start)[2] = 2 /\ ord2ymd(res_start)[3] = 29
    /\ Len(Rows) > 1

\* C3: block k spans [start + (k-1) years, min(start + k years - 1 day, end)],
\* the years added to the original start.
C3_BlockBoundaries ==
    Finished =>
        \A k \in 1 .. Len(Rows) :
            /\ Rows[k].Start = relativedelta_years(res_start, k - 1)
            /\ Rows[k].End = Min2(relativedelta_years(res_start, k) - 1, qualifying)

\* the days of [start, end] the claim calls absent
ClaimedAbsent ==
    {d \in res_start .. qualifying :
        \E k \in 1 .. Len(trips) :
            /\ Complete(trips[k])
            /\ IF policy = "INCLUSIVE"
               THEN Min2(trips[k][1], trips[k][2]) <= d /\ d <= Max2(trips[k][1], trips[k][2])
               ELSE Min2(trips[k][1], trips[k][2]) < d /\ d < Max2(trips[k][1], trips[k][2])}

\* C4: the absent set is exactly the days of the window that a complete trip
\* covers (end days included under INCLUSIVE, excluded under UKVI_WHOLE_DAY),
\* and total_absent_days is the number of those days.
C4_AbsentDaySet ==
    Finished =>
        LET claimed == ClaimedAbsent
        IN  /\ AbsentDates = claimed
            /\ result.total_absent_days = Cardinality(claimed)

Overlap(t, u) ==
    /\ Complete(t) /\ Complete(u)
    /\ Max2(Min2(t[1], t[2]), Min2(u[1], u[2])) < Min2(Max2(t[1], t[2]), Max2(u[1], u[2]))

C4_Witness ==
    /\ Finished
    /\ Len(trips) = 2
    /\ Overlap(trips[1], trips[2])
    /\ trips[1] # trips[2]
    /\ result.total_absent_days > 0

\* the totals of the two pages on the inputs of this run
TotalUkvi ==
    IF policy = "UKVI_WHOLE_DAY" THEN result.total_absent_days
    ELSE ukvi_page(trips, res_start, cap).total_absent_days

TotalInclusive ==
    IF policy = "INCLUSIVE" THEN result.total_absent_days
    ELSE inclusive_page(trips, res_start, cap).total_absent_days

\* C5: on the same trips and residence_start the UKVI total is at most the
\* INCLUSIVE total.
C5_PolicyOrdering == Finished => TotalUkvi <= TotalInclusive

C5_Witness == Finished /\ 0 < TotalUkvi /\ TotalUkvi < TotalInclusive

\* the trip lists the claim compares with
SwapAt(tr, k) == [tr EXCEPT ![k] = <<tr[k][2], tr[k][1]>>]

SwapAll(tr) == [k \in 1 .. Len(tr) |-> <<tr[k][2], tr[k][1]>>]

OnlyComplete(tr) == SelectSeq(tr, Complete)

Page(tr) ==
    IF policy = "INCLUSIVE" THEN inclusive_page(tr, res_start, cap)
    ELSE ukvi_page(tr, res_start, cap)

AbsentOf(tr) ==
    IF policy = "INCLUSIVE" THEN inclusive_absent(tr, 0, res_start, qualifying, {})
    ELSE count_absences_ukvi(parsed_trips(tr, 0, res_start), res_start, qualifying)

\* C6: the run never fails, and its output is the output on the list without
\* its incomplete trips and on the list with any trip, or all, turned round.
C6_RowRecovery ==
    /\ ~scan.failed
    /\ ~result.failed
    /\ pc = "done" =>
        /\ result = Page(OnlyComplete(trips))
        /\ absent = AbsentOf(OnlyComplete(trips))
        /\ result = Page(SwapAll(trips))
        /\ absent = AbsentOf(SwapAll(trips))
        /\ \A k \in 1 .. Len(trips) :
               /\ result = Page(SwapAt(trips, k))
               /\ absent = AbsentOf(SwapAt(trips, k))

C6_Witness ==
    /\ pc = "done"
    /\ \E k \in 1 .. Len(trips) : ~Complete(trips[k])
    /\ \E k \in 1 .. Len(trips) : Complete(trips[k]) /\ trips[k][2] < trips[k][1]
    /\ result.total_absent_days > 0

\* the right edges whose window holds the maximum
PeakEnds == {d \in absent : InSpan(d - 364) = result.max_count}

\* C7: rolling_12m_max reports the earliest absent day whose 365-day window
\* holds max_count absent days, with window_start 364 days before it, and
\* (0, none, none) for an empty set.
C7_TieBreak ==
    (Finished /\ policy = "UKVI_WHOLE_DAY") =>
        IF absent = {}
        THEN result.max_count = 0 /\ result.window_start = None /\ result.window_end = None
        ELSE /\ result.window_end \in PeakEnds
             /\ \A d \in PeakEnds : result.window_end <= d
             /\ result.window_start = result.window_end - 364

C7_Witness ==
    /\ Finished /\ policy = "UKVI_WHOLE_DAY"
    /\ Cardinality(PeakEnds) > 1
    /\ result.max_count >= 1

\* where the scan stands
ScanSafe ==
    pc = "scan" =>
        /\ 0 <= scan.j /\ scan.j <= scan.i
        /\ scan.pc = "while" => scan.j < Len(days)
        /\ scan.pc = "count" => days[scan.i + 1] - days[scan.j + 1] <= 364

\* C8: j never decreases, never exceeds i (so days[j] is read in range), and
\* when the inner loop is left days[i] - days[j] <= 364.
C8_ScanSafety == [](ScanSafe /\ ~scan.failed) /\ [][scan'.j >= scan.j]_vars

C8_Witness == pc = "scan" /\ scan.pc = "count" /\ scan.j > 0 /\ scan.i > scan.j

\* C9 as claimed: no fixed block counts more absent days than the rolling
\* maximum, so a block in BREACH implies the rolling status BREACH.
C9_BlocksBelowRolling ==
    Finished =>
        \A k \in 1 .. Len(Rows) :
            /\ Rows[k].Days <= MaxCount
            /\ Rows[k].Status = "BREACH" => result.breach

BlockLen(r) == r.End - r.Start + 1

\* C9 amended: a block of at most 365 days counts no more than the rolling
\* maximum, and its BREACH implies the rolling BREACH; a block of 366 days
\* (one holding a 29 February) counts at most one day more.
C9_ShortBlocksBelowRolling ==
    Finished =>
        \A k \in 1 .. Len(Rows) :
            /\ Rows[k].Days <= MaxCount + 1
            /\ BlockLen(Rows[k]) <= 365 =>
                   /\ Rows[k].Days <= MaxCount
                   /\ Rows[k].Status = "BREACH" => result.breach

C9_Witness ==
    /\ Finished
    /\ \E k \in 1 .. Len(Rows) :
           /\ BlockLen(Rows[k]) = 365
           /\ Rows[k].Status = "BREACH"
           /\ Rows[k].Days = MaxCount
    /\ result.breach

\* C10: with qualifying_date five calendar years after residence_start there
\* are exactly six blocks, numbered 1..6, and the sixth is the single day
\* qualifying_date: the fifth yearly step of the loop lands on the date that
\* five years added at once give.
C10_SixBlocks ==
    Finished =>
        /\ Len(Rows) = 6
        /\ \A k \in 1 .. Len(Rows) : Rows[k].Year = k
        /\ Rows[6].Start = qualifying /\ Rows[6].End = qualifying
        /\ blk.year_start = relativedelta_years(qualifying, 1)

C10_Witness ==
    /\ Finished
    /\ ord2ymd(res_start)[2] = 2 /\ ord2ymd(res_start)[3] = 29
    /\ Len(Rows) = 6
    /\ ord2ymd(Rows[6].Start) = <<ord2ymd(res_start)[1] + 5, 2, 28>>

====
